---- MODULE Spec2Model ----
(***************************************************************************)
(* Model of the WhatsApp relay of src/script.py: the webhook handler, the  *)
(* per-user history files, the reply generator, the message segmenter and  *)
(* the send capability.  Texts are sequences of one-character strings, so  *)
(* that strip, split and join are computed as Python computes them.        *)
(***************************************************************************)
EXTENDS Integers, Sequences, FiniteSets, TLC

\* ------------------------------------------------------------------ bounds
\* Number of webhook requests the server accepts in one behaviour.
MaxEvents == 2

\* ------------------------------------------------------- program constants
\* split_message(text, max_lines=3, max_chars_per_line=100)
DefaultMaxLines == 3
DefaultMaxCharsPerLine == 100

\* The worker threads of the Flask development server (app.run is threaded).
Handlers == {"t1", "t2"}

\* A value that stands for a JSON member that is missing, null or empty.
Absent == "<absent>"

\* ------------------------------------------------------------ fixed texts
API_KEY_APOLOGY == <<
    "S","o","r","r","y",","," ","I","'","m"," ","h","a","v","i","n","g"," ",
    "t","r","o","u","b","l","e"," ","c","o","n","n","e","c","t","i","n","g",
    " ","t","o"," ","m","y"," ","b","r","a","i","n"," ","r","i","g","h","t",
    " ","n","o","w"," ","(","A","P","I"," ","k","e","y"," ","i","s","s","u",
    "e",")","." >>

UNUSUAL_RESPONSE_APOLOGY == <<
    "I"," ","r","e","c","e","i","v","e","d"," ","a","n"," ","u","n","u","s",
    "u","a","l"," ","r","e","s","p","o","n","s","e"," ","s","t","r","u","c",
    "t","u","r","e"," ","f","r","o","m"," ","G","e","m","i","n","i","."," ",
    "P","l","e","a","s","e"," ","t","r","y"," ","a","g","a","i","n","." >>

EMPTY_RESPONSE_APOLOGY == <<
    "I"," ","r","e","c","e","i","v","e","d"," ","a","n"," ","e","m","p","t",
    "y"," ","o","r"," ","u","n","e","x","p","e","c","t","e","d"," ","r","e",
    "s","p","o","n","s","e"," ","f","r","o","m"," ","G","e","m","i","n","i",
    "."," ","P","l","e","a","s","e"," ","t","r","y"," ","a","g","a","i","n",
    "." >>

TROUBLE_PROCESSING_APOLOGY == <<
    "I","'","m"," ","h","a","v","i","n","g"," ","t","r","o","u","b","l","e",
    " ","p","r","o","c","e","s","s","i","n","g"," ","t","h","a","t"," ","r",
    "e","q","u","e","s","t"," ","w","i","t","h"," ","m","y"," ","A","I"," ",
    "b","r","a","i","n","."," ","P","l","e","a","s","e"," ","t","r","y"," ",
    "a","g","a","i","n"," ","l","a","t","e","r","." >>

\* ---------------------------------------------------------- str operations
\* str.isspace for the characters the model uses.
Whitespace == {" ", "\n", "\t"}

\* str.isalnum for the characters the model uses.
Alnum ==
    {"0","1","2","3","4","5","6","7","8","9"} \cup
    {"a","b","c","d","e","f","g","h","i","j","k","l","m",
     "n","o","p","q","r","s","t","u","v","w","x","y","z"} \cup
    {"A","B","C","D","E","F","G","H","I","J","K","L","M",
     "N","O","P","Q","R","S","T","U","V","W","X","Y","Z"}

Min(S) == CHOOSE x \in S : \A y \in S : x <= y
Max(S) == CHOOSE x \in S : \A y \in S : x >= y

\* The elements of a set of numbers in increasing order.
Sorted(S) ==
    [k \in 1..Cardinality(S) |->
        CHOOSE x \in S : Cardinality({y \in S : y < x}) = k - 1]

\* text.strip(): what lies between the first and the last character that is
\* no whitespace.
Strip(s) ==
    LET solid == {i \in 1..Len(s) : s[i] \notin Whitespace}
    IN IF solid = {} THEN <<>> ELSE SubSeq(s, Min(solid), Max(solid))

\* The part of s that starts at position a and ends before the first
\* position from a on that is in stops, or at the end of s.
PartFrom(s, a, stops) ==
    SubSeq(s, a, Min({j \in stops : j >= a} \cup {Len(s) + 1}) - 1)

\* text.split(sep): every occurrence of sep separates, empty parts are kept.
SplitOn(s, sep) ==
    LET seps == {i \in 1..Len(s) : s[i] = sep}
        starts == Sorted({1} \cup {i + 1 : i \in seps})
    IN [k \in 1..Len(starts) |-> PartFrom(s, starts[k], seps)]

\* paragraph.split(): runs of whitespace separate, empty parts are dropped.
SplitWords(s) ==
    LET blanks == {i \in 1..Len(s) : s[i] \in Whitespace}
        starts == Sorted({i \in 1..Len(s) :
                            i \notin blanks /\ (i = 1 \/ (i - 1) \in blanks)})
    IN [k \in 1..Len(starts) |-> PartFrom(s, starts[k], blanks)]

\* sep.join(parts)
RECURSIVE Join(_, _)
Join(parts, sep) ==
    IF parts = <<>> THEN <<>>
    ELSE IF Len(parts) = 1 THEN parts[1]
    ELSE parts[1] \o <<sep>> \o Join(Tail(parts), sep)

\* ------------------------------------------------------- message segmenter
\* split_message's two loops, each carrying the locals of the code: the
\* closed chunks, the lines of the open chunk and its line count, and in the
\* inner loop the words of the open line and its length.  p and w are the
\* positions of the loops in paragraphs and in words.
RECURSIVE ParagraphLoop(_, _, _, _, _, _, _)
RECURSIVE WordLoop(_, _, _, _, _, _, _, _, _, _, _)

\* The loop over the paragraphs (lines 95-97 and 123-134).
ParagraphLoop(paragraphs, p, chunks, current_chunk, current_line_count, max_lines, max_chars_per_line) ==
    IF p > Len(paragraphs)
    THEN IF current_chunk # <<>>
         THEN Append(chunks, Join(current_chunk, "\n"))
         ELSE chunks
    ELSE IF Len(paragraphs[p]) > max_chars_per_line
    THEN WordLoop(paragraphs, p, SplitWords(paragraphs[p]), 1,
                  chunks, current_chunk, current_line_count, <<>>, 0,
                  max_lines, max_chars_per_line)
    ELSE IF current_line_count >= max_lines
    THEN ParagraphLoop(paragraphs, p + 1,
                       Append(chunks, Join(current_chunk, "\n")),
                       <<paragraphs[p]>>, 1,
                       max_lines, max_chars_per_line)
    ELSE ParagraphLoop(paragraphs, p + 1,
                       chunks, Append(current_chunk, paragraphs[p]),
                       current_line_count + 1,
                       max_lines, max_chars_per_line)

\* The loop over the words of a long paragraph (lines 98-122).
WordLoop(paragraphs, p, words, w, chunks, current_chunk, current_line_count, current_line, current_length, max_lines, max_chars_per_line) ==
    IF w > Len(words)
    THEN IF current_line = <<>>
         THEN ParagraphLoop(paragraphs, p + 1,
                            chunks, current_chunk, current_line_count,
                            max_lines, max_chars_per_line)
         ELSE IF current_line_count >= max_lines
         THEN ParagraphLoop(paragraphs, p + 1,
                            Append(chunks, Join(current_chunk, "\n")),
                            <<Join(current_line, " ")>>, 1,
                            max_lines, max_chars_per_line)
         ELSE ParagraphLoop(paragraphs, p + 1,
                            chunks, Append(current_chunk, Join(current_line, " ")),
                            current_line_count + 1,
                            max_lines, max_chars_per_line)
    ELSE IF current_length + Len(words[w]) + 1 <= max_chars_per_line
    THEN WordLoop(paragraphs, p, words, w + 1,
                  chunks, current_chunk, current_line_count,
                  Append(current_line, words[w]),
                  current_length + Len(words[w]) + 1,
                  max_lines, max_chars_per_line)
    ELSE IF current_line_count >= max_lines
    THEN WordLoop(paragraphs, p, words, w + 1,
                  Append(chunks, Join(current_chunk, "\n")),
                  <<Join(current_line, " ")>>, 1,
                  <<words[w]>>, Len(words[w]),
                  max_lines, max_chars_per_line)
    ELSE WordLoop(paragraphs, p, words, w + 1,
                  chunks, Append(current_chunk, Join(current_line, " ")),
                  current_line_count + 1,
                  <<words[w]>>, Len(words[w]),
                  max_lines, max_chars_per_line)

\* A chunk is closed one line later than max_lines.
split_message_one_more_line(text, max_lines, max_chars_per_line) ==
    ParagraphLoop(SplitOn(text, "\n"), 1, <<>>, <<>>, 0, max_lines + 1, max_chars_per_line)

\* A line is closed one character later than max_chars_per_line.
split_message_one_more_char(text, max_lines, max_chars_per_line) ==
    ParagraphLoop(SplitOn(text, "\n"), 1, <<>>, <<>>, 0, max_lines, max_chars_per_line + 1)

\* Lines 131-132 left out: the chunk that is open at the end is lost.
split_message_without_flush(text, max_lines, max_chars_per_line) ==
    CHOOSE closed \in
        { SubSeq(chunks, 1, Len(chunks) - 1) :
            chunks \in {ParagraphLoop(SplitOn(text, "\n"), 1, <<>>, <<>>, 0,
                                      max_lines, max_chars_per_line)} } : TRUE

\* paragraphs is bound to its value, so that the loops do not compute
\* text.split('\n') again at every use.
split_message(text, max_lines, max_chars_per_line) ==
    CHOOSE chunks \in
        { ParagraphLoop(paragraphs, 1, <<>>, <<>>, 0, max_lines, max_chars_per_line) :
            paragraphs \in {SplitOn(text, "\n") \o <<>>} } : TRUE

\* ------------------------------------------------------------ user identity
\* The characters that are not alphanumeric are dropped.
safe_sender_id_dropping(sender_number) ==
    SelectSeq(sender_number, LAMBDA c : c \in Alnum)

\* "".join(c if c.isalnum() else '_' for c in sender_number)
safe_sender_id(sender_number) ==
    [k \in 1..Len(sender_number) |->
        IF sender_number[k] \in Alnum THEN sender_number[k] ELSE "_"]

\* ------------------------------------------------------------ history store
\* The content of a history file: no file, a file json.load cannot decode
\* (an empty or partly written file included), or a decoded JSON list whose
\* items are objects, modelled as functions from member names to values.
NoFile == [state |-> "no file", items |-> <<>>]
Undecodable == [state |-> "undecodable", items |-> <<>>]
JsonList(items) == [state |-> "list", items |-> items]

UserTurn(text) == [role |-> "user", parts |-> <<text>>]
ModelTurn(text) == [role |-> "model", parts |-> <<text>>]

\* A decoded JSON value that is not a list, and an item of a list that is
\* not an object.
JsonValue == [state |-> "value", items |-> <<>>]
NonDict == [scalar |-> "1"]

\* The item is accepted whenever it is an object with a role.
ValidItemRoleOnly(item) == item # NonDict /\ "role" \in DOMAIN item

\* isinstance(item, dict) and 'role' in item and 'parts' in item (line 65).
ValidItem(item) ==
    item # NonDict /\ "role" \in DOMAIN item /\ "parts" \in DOMAIN item

\* read_ok is false when opening or reading the file raises something else
\* than FileNotFoundError or JSONDecodeError (line 75).  Every path of the
\* function returns a list.
load_conversation_history(file, read_ok) ==
    IF file.state = "no file" THEN <<>>
    ELSE IF ~read_ok THEN <<>>
    ELSE IF file.state = "undecodable" THEN <<>>
    ELSE IF file.state = "list" /\ \A k \in 1..Len(file.items) : ValidItem(file.items[k])
         THEN file.items
         ELSE <<>>

\* ---------------------------------------------------------- reply generator
\* What the generation capability does with one call: a response with a text
\* field, a response with candidates only (whose first part holds a text, or
\* whose shape is broken), a response with neither, or an error.
GenText(raw) == [kind |-> "text", raw |-> raw]
GenCandidates(raw) == [kind |-> "candidates", raw |-> raw]
GenBrokenCandidates == [kind |-> "broken_candidates", raw |-> <<>>]
GenEmpty == [kind |-> "empty", raw |-> <<>>]
GenError == [kind |-> "error", raw |-> <<>>]
NoCall == [kind |-> "no_call", raw |-> <<>>]

\* The reply for a given credential and capability outcome (lines 138-173).
get_gemini_response(api_key, outcome) ==
    IF ~api_key THEN API_KEY_APOLOGY
    ELSE IF outcome.kind = "error" THEN TROUBLE_PROCESSING_APOLOGY
    ELSE IF outcome.kind = "text" /\ outcome.raw # <<>> THEN Strip(outcome.raw)
    ELSE IF outcome.kind = "candidates" THEN Strip(outcome.raw)
    ELSE IF outcome.kind = "broken_candidates" THEN UNUSUAL_RESPONSE_APOLOGY
    ELSE EMPTY_RESPONSE_APOLOGY

\* --------------------------------------------------------- send capability
\* send_whatsapp_message(recipient, chunk, message_type='text'): False with
\* no token, otherwise the outcome of the HTTP request.
send_whatsapp_message(api_token, request_ok) ==
    IF ~api_token THEN FALSE ELSE request_ok

\* ---------------------------------------------------------- inbound events
\* Raw sender addresses (remoteJid values).  The first and the third differ
\* in a character that is not alphanumeric only.
Addresses == { <<"1","@","s">>, <<"2","@","s">>, <<"1",".","s">> }

\* A remoteJid that is a JSON number instead of a string.
NonString == << "<number>" >>

\* A remoteJid that is missing, null or the empty string.
NoJid == <<>>

\* Incoming texts.
Texts == { <<>>, <<"h","i">> }

\* Texts the generation capability may return.
RawReplies ==
    { <<" ","a","\n","b","\n","c","\n","d","\n","e","\n","f","\n","g","\n">> }

GenOutcomes ==
    {GenText(r) : r \in RawReplies} \cup {GenCandidates(<<" ">>), GenError}

\* An inbound request.  body: the request body is a JSON object, another
\* JSON value, or not JSON at all.  event: the 'event' member.  data,
\* messages, key: the member is an object, is a non-empty value of another
\* type, or is Absent.  message tells which member of 'message' carries the
\* text: 'conversation', 'extendedTextMessage' with a text, the latter
\* without a text, another member only, a non-container value, or Absent.
Event(body, event, data, messages, key, fromMe, remoteJid, message, text, stub) ==
    [body |-> body, event |-> event, data |-> data, messages |-> messages,
     key |-> key, fromMe |-> fromMe, remoteJid |-> remoteJid,
     message |-> message, text |-> text, messageStubType |-> stub]

MessageKinds ==
    {"conversation", "extendedTextMessage", "extendedTextMessage-no-text",
     "other", "non-object", Absent}

\* A messages.upsert notification with the given key and message.
Upsert(key, fromMe, remoteJid, message, text, stub) ==
    Event("object", "messages.upsert", "object", "object",
          key, fromMe, remoteJid, message, text, stub)

Hi == <<"h","i">>
FirstAddress == <<"1","@","s">>

\* Requests that stop before the handler looks at the message.
EnvelopeEvents ==
    { Event(b, Absent, Absent, Absent, Absent, FALSE, NoJid, Absent, <<>>, FALSE) :
        b \in {"unparseable", "non-object", "object"} } \cup
    { Event("object", "other", "object", "object", "object", f, FirstAddress,
            "conversation", Hi, FALSE) : f \in BOOLEAN } \cup
    { Event("object", "messages.upsert", d, Absent, Absent, FALSE, NoJid,
            Absent, <<>>, FALSE) : d \in {Absent, "non-object"} } \cup
    { Event("object", "messages.upsert", "object", m, Absent, FALSE, NoJid,
            Absent, <<>>, FALSE) : m \in {Absent, "non-object"} }

\* Self-sent messages, stub notifications and messages with a broken key.
IgnoredEvents ==
    { Upsert("object", TRUE, j, "conversation", Hi, s) :
        j \in {FirstAddress, NoJid}, s \in BOOLEAN } \cup
    { Upsert("object", FALSE, j, m, <<>>, TRUE) :
        j \in {FirstAddress, NoJid}, m \in {"non-object", Absent} } \cup
    { Upsert("object", FALSE, j, "conversation", Hi, TRUE) :
        j \in {FirstAddress, NoJid} } \cup
    { Upsert("non-object", FALSE, NoJid, "conversation", Hi, FALSE) }

\* Messages of every kind from the first address, from nobody and from a
\* sender whose address is no string; text messages from every address.
MessageEvents ==
    { Upsert("object", FALSE, FirstAddress, m, t, FALSE) :
        m \in {"conversation", "extendedTextMessage"}, t \in Texts } \cup
    { Upsert("object", FALSE, FirstAddress, m, <<>>, FALSE) :
        m \in MessageKinds \ {"conversation", "extendedTextMessage"} } \cup
    { Upsert("object", FALSE, a, "conversation", Hi, FALSE) : a \in Addresses } \cup
    { Upsert("object", FALSE, NonString, "conversation", Hi, FALSE) } \cup
    { Upsert("object", FALSE, NoJid, m, <<>>, FALSE) : m \in {"other", Absent} } \cup
    { Upsert(k, FALSE, NoJid, "conversation", Hi, FALSE) : k \in {"object", Absent} }

Events == EnvelopeEvents \cup IgnoredEvents \cup MessageEvents

\* ------------------------------------------------------------ HTTP replies
Response(code, status, message) == [code |-> code, status |-> status, message |-> message]

SelfSentIgnored == Response(200, "success", "Self-sent message ignored")
SystemMessageProcessed == Response(200, "success", "System message processed")
IncompleteSenderData == Response(400, "error", "Incomplete sender data")
Success == Response(200, "success", Absent)
\* The except clause of webhook (lines 316-318).
InternalServerError == Response(500, "error", "Internal server error")
\* handle_global_exception (lines 30-34).
handle_global_exception == Response(500, "error", "An internal server error occurred.")

\* ----------------------------------------------------- webhook, lines 240-280
\* The text the handler extracts from message_info (lines 254-265).
incoming_message_text(e) ==
    IF e.message \in {"conversation", "extendedTextMessage"} THEN e.text ELSE <<>>

message_type(e) ==
    IF e.message \in {"conversation", "extendedTextMessage"} THEN "text" ELSE "unknown"

\* The test of line 248 left out.
IsSelfSentNever(e) == FALSE

\* Line 248.
IsSelfSent(e) == e.fromMe

\* The test of line 267 left out.
IsStubNever(e) == FALSE

\* Line 267.
IsStub(e) == e.messageStubType

\* The test of line 272 left out.
SenderMissingNever(e) == FALSE

\* Line 272.
SenderMissing(e) == e.remoteJid = NoJid

\* Line 279.
HasText(e) == message_type(e) = "text" /\ incoming_message_text(e) # <<>>

\* The part of the handler that runs before the first call of a capability:
\* either the response it returns, or Proceed when it goes on to load the
\* history.
Proceed == Response(0, "proceed", Absent)

webhook_parse(e) ==
    IF e.body = "unparseable" THEN handle_global_exception
    ELSE IF e.body = "non-object" THEN InternalServerError
    ELSE IF e.event # "messages.upsert" THEN Success
    ELSE IF e.data = Absent THEN Success
    ELSE IF e.data = "non-object" THEN InternalServerError
    ELSE IF e.messages = Absent THEN Success
    ELSE IF e.messages = "non-object" THEN InternalServerError
    ELSE IF e.key = "non-object" THEN InternalServerError
    ELSE IF IsSelfSent(e) THEN SelfSentIgnored
    ELSE IF e.message = "non-object" THEN InternalServerError
    ELSE IF IsStub(e) THEN SystemMessageProcessed
    ELSE IF SenderMissing(e) THEN IncompleteSenderData
    ELSE IF e.remoteJid = NonString THEN InternalServerError
    ELSE IF HasText(e) THEN Proceed
    ELSE Success

\* -------------------------------------------------------------------- state
VARIABLES
    GEMINI_API_KEY,        \* whether the generation credential is configured
    WASENDER_API_TOKEN,    \* whether the send credential is configured
    files,                 \* conversations/<user_id>.json, by user_id
    pc,                    \* where each worker thread is in webhook
    request,               \* the event a thread is handling
    conversation_history,  \* webhook's local of that name
    gemini_reply,          \* webhook's local of that name
    message_chunks,        \* webhook's local of that name
    sent,                  \* chunks of message_chunks delivered so far
    calls,                 \* the capability calls a thread made for its event
    received,              \* requests accepted so far
    responded,             \* responses the client has received so far
    response,              \* the HTTP response on its way to the client
    args,                  \* the arguments of a function called on its own
    result                 \* what that call returned

vars == <<GEMINI_API_KEY, WASENDER_API_TOKEN, files, pc, request,
          conversation_history, gemini_reply, message_chunks, sent, calls,
          received, responded, response, args, result>>

config == <<GEMINI_API_KEY, WASENDER_API_TOKEN>>
locals == <<conversation_history, gemini_reply, message_chunks, sent>>
direct == <<args, result>>

UserIds == {safe_sender_id(a) : a \in Addresses}

\* The conversations directory is empty at start (lines 16-19 create it).
InitialFiles == {NoFile}

NoRequest ==
    [body |-> "none", event |-> Absent, data |-> Absent, messages |-> Absent,
     key |-> Absent, fromMe |-> FALSE, remoteJid |-> NoJid, message |-> Absent,
     text |-> <<>>, messageStubType |-> FALSE]

\* One capability call, as the handler made it.  ok: the send or the save
\* succeeded; the load returned what the file holds; the generation
\* capability was invoked.
Call(op, user_id, text, history, ok) ==
    [op |-> op, user_id |-> user_id, text |-> text, history |-> history, ok |-> ok]

NoResponse ==
    [request |-> NoRequest, reply |-> Response(0, "none", Absent), calls |-> <<>>,
     gemini_reply |-> <<>>, message_chunks |-> <<>>]

\* Names bound in webhook's scope or in the module's when line 298 runs.
BoundNames ==
    {"data", "message_info", "sender_number", "incoming_message_text",
     "message_type", "msg_content_obj", "safe_sender_id",
     "conversation_history", "gemini_reply", "message_chunks", "chunk",
     "random", "time", "app", "request", "jsonify", "logging", "os", "json",
     "requests", "genai"}

\* Evaluating `i < len(message_chunks) - 1` raises NameError.
PacingRaises == "i" \notin BoundNames

\* No function is being called on its own.
NoArgs == [function |-> "none"]
NoResult == [returned |-> FALSE, value |-> <<>>]

\* The server is up and no request has arrived yet.
ServerStarted ==
    /\ files \in [UserIds -> InitialFiles]
    /\ pc = [h \in Handlers |-> "idle"]
    /\ request = [h \in Handlers |-> NoRequest]
    /\ conversation_history = [h \in Handlers |-> <<>>]
    /\ gemini_reply = [h \in Handlers |-> <<>>]
    /\ message_chunks = [h \in Handlers |-> <<>>]
    /\ sent = [h \in Handlers |-> 0]
    /\ calls = [h \in Handlers |-> <<>>]
    /\ received = 0
    /\ responded = 0
    /\ response = NoResponse

Init ==
    /\ GEMINI_API_KEY \in BOOLEAN
    /\ WASENDER_API_TOKEN \in BOOLEAN
    /\ ServerStarted
    /\ args = NoArgs
    /\ result = NoResult

\* The thread returns: the response leaves with what the thread did, and the
\* thread is free for the next request.
Return(h, reply, more_calls) ==
    /\ response = NoResponse
    /\ response' = [request |-> request[h], reply |-> reply,
                    calls |-> calls[h] \o more_calls,
                    gemini_reply |-> gemini_reply[h],
                    message_chunks |-> message_chunks[h]]
    /\ pc' = [pc EXCEPT ![h] = "idle"]
    /\ request' = [request EXCEPT ![h] = NoRequest]
    /\ conversation_history' = [conversation_history EXCEPT ![h] = <<>>]
    /\ gemini_reply' = [gemini_reply EXCEPT ![h] = <<>>]
    /\ message_chunks' = [message_chunks EXCEPT ![h] = <<>>]
    /\ sent' = [sent EXCEPT ![h] = 0]
    /\ calls' = [calls EXCEPT ![h] = <<>>]

\* The exception escapes the handler: the thread dies with no response.
ExceptNotCaught(h, more_calls) ==
    /\ pc' = [pc EXCEPT ![h] = "crashed"]
    /\ calls' = [calls EXCEPT ![h] = @ \o more_calls]
    /\ UNCHANGED <<request, locals, response>>

\* Lines 316-318: an exception raised after the first capability call is
\* caught, logged and answered.
Except(h, more_calls) == Return(h, InternalServerError, more_calls)

\* Lines 240-280 for an event the handler answers without calling any
\* capability.
ReceiveAndReturn(h, e) ==
    /\ pc[h] = "idle"
    /\ received < MaxEvents
    /\ webhook_parse(e) # Proceed
    /\ response = NoResponse
    /\ response' = [NoResponse EXCEPT !.request = e, !.reply = webhook_parse(e)]
    /\ received' = received + 1
    /\ UNCHANGED <<config, direct, files, pc, request, locals, calls, responded>>

\* Lines 240-280 for a text event with a sender.
ReceiveText(h, e) ==
    /\ pc[h] = "idle"
    /\ received < MaxEvents
    /\ webhook_parse(e) = Proceed
    /\ request' = [request EXCEPT ![h] = e]
    /\ pc' = [pc EXCEPT ![h] = "load"]
    /\ received' = received + 1
    /\ UNCHANGED <<config, direct, files, locals, calls, responded, response>>

\* Line 283.
Load(h) ==
    /\ pc[h] = "load"
    /\ \E read_ok \in BOOLEAN :
         LET user_id == safe_sender_id(request[h].remoteJid)
             history == load_conversation_history(files[user_id], read_ok)
         IN /\ conversation_history' = [conversation_history EXCEPT ![h] = history]
            /\ calls' = [calls EXCEPT ![h] =
                           Append(@, Call("load", user_id, <<>>, history,
                                          history = load_conversation_history(
                                                        files[user_id], TRUE)))]
    /\ pc' = [pc EXCEPT ![h] = "generate"]
    /\ UNCHANGED <<config, direct, files, request, gemini_reply, message_chunks, sent,
                   received, responded, response, args, result>>

\* Line 304 left out: the model turn is not appended.
WithExchangeUserOnly(history, text, reply) ==
    history \o <<UserTurn(text)>>

\* Lines 303 and 304 in the other order.
WithExchangeModelFirst(history, text, reply) ==
    history \o <<ModelTurn(reply), UserTurn(text)>>

\* The history the handler saves (lines 303-304).
WithExchange(history, text, reply) ==
    history \o <<UserTurn(text), ModelTurn(reply)>>

\* Line 290 with the defaults of line 87.
Chunks(reply) == split_message(reply, DefaultMaxLines, DefaultMaxCharsPerLine)

\* Lines 286-290 when the reply is not empty; with no chunk to send the
\* loop of line 291 is over at once.
Generate(h) ==
    /\ pc[h] = "generate"
    /\ \E outcome \in (IF GEMINI_API_KEY THEN GenOutcomes ELSE {NoCall}) :
         /\ get_gemini_response(GEMINI_API_KEY, outcome) # <<>>
         /\ gemini_reply' =
               [gemini_reply EXCEPT ![h] = get_gemini_response(GEMINI_API_KEY, outcome)]
    /\ message_chunks' = [message_chunks EXCEPT ![h] = Chunks(gemini_reply'[h])]
    /\ calls' = [calls EXCEPT ![h] =
                   Append(@, Call("generate", <<>>, incoming_message_text(request[h]),
                                  conversation_history[h], GEMINI_API_KEY))]
    /\ pc' = [pc EXCEPT ![h] = IF message_chunks'[h] = <<>> THEN "save" ELSE "send"]
    /\ conversation_history' =
          [conversation_history EXCEPT ![h] =
              IF message_chunks'[h] = <<>>
              THEN WithExchange(@, incoming_message_text(request[h]), gemini_reply'[h])
              ELSE @]
    /\ UNCHANGED <<config, direct, files, request, sent, received, responded, response>>

\* Lines 286-288 when the reply is empty: nothing is sent or saved.
GenerateEmpty(h) ==
    /\ pc[h] = "generate"
    /\ \E outcome \in (IF GEMINI_API_KEY THEN GenOutcomes ELSE {NoCall}) :
         /\ get_gemini_response(GEMINI_API_KEY, outcome) = <<>>
         /\ Return(h, Success,
                   <<Call("generate", <<>>, incoming_message_text(request[h]),
                          conversation_history[h], GEMINI_API_KEY)>>)
    /\ UNCHANGED <<config, direct, files, received, responded>>

\* The chunk the loop at line 291 is at.
CurrentChunk(h) == message_chunks[h][sent[h] + 1]

SendCall(h, ok) == Call("send", <<>>, CurrentChunk(h), <<>>, ok)

\* The break of line 294 left out: the loop goes on to the next chunk.
AfterFailureNoBreak(k, n) ==
    IF k + 1 < n THEN [pc |-> "send", sent |-> k + 1]
    ELSE [pc |-> "save", sent |-> k + 1]

\* Where the loop goes after a send that returned False, k chunks having
\* been delivered before it out of n: the break at line 294.
AfterFailure(k, n) == [pc |-> "save", sent |-> k]

\* Where the loop goes after a delivered chunk when line 298 does not raise.
AfterDelivery(k, n) ==
    IF k + 1 < n THEN [pc |-> "send", sent |-> k + 1]
    ELSE [pc |-> "save", sent |-> k + 1]

\* The loop moves on: to the next chunk, or out of the loop to lines 303-305.
Continue(h, next, call) ==
    /\ pc' = [pc EXCEPT ![h] = next.pc]
    /\ sent' = [sent EXCEPT ![h] = next.sent]
    /\ calls' = [calls EXCEPT ![h] = Append(@, call)]
    /\ conversation_history' =
          [conversation_history EXCEPT ![h] =
              IF next.pc = "save"
              THEN WithExchange(@, incoming_message_text(request[h]), gemini_reply[h])
              ELSE @]
    /\ UNCHANGED <<request, gemini_reply, message_chunks, response>>

\* Lines 291-294: send_whatsapp_message returns False.
SendChunkFails(h) ==
    /\ pc[h] = "send"
    /\ \E request_ok \in BOOLEAN :
         ~send_whatsapp_message(WASENDER_API_TOKEN, request_ok)
    /\ Continue(h, AfterFailure(sent[h], Len(message_chunks[h])), SendCall(h, FALSE))
    /\ UNCHANGED <<config, direct, files, received, responded>>

\* Lines 291-300: send_whatsapp_message returns True, then the pacing code.
SendChunkDelivered(h) ==
    /\ pc[h] = "send"
    /\ \E request_ok \in BOOLEAN :
         send_whatsapp_message(WASENDER_API_TOKEN, request_ok)
    /\ IF PacingRaises
       THEN Except(h, <<SendCall(h, TRUE)>>)
       ELSE Continue(h, AfterDelivery(sent[h], Len(message_chunks[h])), SendCall(h, TRUE))
    /\ UNCHANGED <<config, direct, files, received, responded>>

SaveCall(h, ok) ==
    Call("save", safe_sender_id(request[h].remoteJid), <<>>, conversation_history[h], ok)

\* Line 83: open(file_path, 'w') truncates the file.
SaveOpen(h) ==
    /\ pc[h] = "save"
    /\ files' = [files EXCEPT ![safe_sender_id(request[h].remoteJid)] = Undecodable]
    /\ pc' = [pc EXCEPT ![h] = "write"]
    /\ UNCHANGED <<config, direct, request, locals, calls, received, responded, response>>

\* Line 83 raises; lines 85-86 log it and the handler returns at line 315.
SaveOpenFails(h) ==
    /\ pc[h] = "save"
    /\ Return(h, Success, <<SaveCall(h, FALSE)>>)
    /\ UNCHANGED <<config, direct, files, received, responded>>

\* Line 84 and the close of the file: the whole list is written, or the
\* write raises and leaves a partial file; then line 315.
SaveWrite(h) ==
    /\ pc[h] = "write"
    /\ \E write_ok \in BOOLEAN :
         /\ files' = [files EXCEPT ![safe_sender_id(request[h].remoteJid)] =
                        IF write_ok THEN JsonList(conversation_history[h]) ELSE @]
         /\ Return(h, Success, <<SaveCall(h, write_ok)>>)
    /\ UNCHANGED <<config, direct, received, responded>>

\* The client gets the response.
ClientReceives ==
    /\ response # NoResponse
    /\ response' = NoResponse
    /\ responded' = responded + 1
    /\ UNCHANGED <<config, direct, files, pc, request, locals, calls, received>>

Step(h) ==
    \/ Load(h)
    \/ Generate(h)
    \/ GenerateEmpty(h)
    \/ SendChunkFails(h)
    \/ SendChunkDelivered(h)
    \/ SaveOpen(h)
    \/ SaveOpenFails(h)
    \/ SaveWrite(h)

Next ==
    \/ \E h \in Handlers, e \in Events : ReceiveAndReturn(h, e)
    \/ \E h \in Handlers, e \in Events : ReceiveText(h, e)
    \/ \E h \in Handlers : Load(h)
    \/ \E h \in Handlers : Generate(h)
    \/ \E h \in Handlers : GenerateEmpty(h)
    \/ \E h \in Handlers : SendChunkFails(h)
    \/ \E h \in Handlers : SendChunkDelivered(h)
    \/ \E h \in Handlers : SaveOpen(h)
    \/ \E h \in Handlers : SaveOpenFails(h)
    \/ \E h \in Handlers : SaveWrite(h)
    \/ ClientReceives

Spec == Init /\ [][Next]_vars

\* Every thread that is handling a request keeps running, every call of a
\* capability returns, and the client reads the responses.
FairSpec ==
    /\ Spec
    /\ \A h \in Handlers : WF_vars(Step(h))
    /\ WF_vars(ClientReceives)

TypeOK ==
    /\ pc \in [Handlers -> {"idle", "load", "generate", "send", "save", "write"}]
    /\ received \in 0..MaxEvents
    /\ responded \in 0..received


\* ================================================ functions called directly
\* split_message, the derivation of the storage key and
\* load_conversation_history, each called on its own with arguments drawn
\* from a bounded set, the server receiving no request meanwhile.
MaxTextLen == 5
MaxMaxLines == 2
MaxMaxChars == 3
MaxAddressLen == 3
MaxItems == 3
MaxDerivations == 2

\* The strings of at most n characters of an alphabet.
Strings(alphabet, n) == UNION { [1..k -> alphabet] : k \in 0..n }

\* The module is loaded with both credentials and serves no request.
Imported ==
    /\ GEMINI_API_KEY = TRUE
    /\ WASENDER_API_TOKEN = TRUE
    /\ ServerStarted

Returns(value) ==
    /\ result' = [returned |-> TRUE, value |-> value]
    /\ UNCHANGED <<config, files, pc, request, locals, calls, received,
                   responded, response, args>>

\* ------------------------------------------------------------ split_message
SplitAlphabet == {"a", "b", " ", "\n"}

SplitInit ==
    /\ Imported
    /\ args \in { [function |-> "split_message", text |-> t,
                   max_lines |-> l, max_chars_per_line |-> c] :
                    t \in Strings(SplitAlphabet, MaxTextLen),
                    l \in 0..MaxMaxLines, c \in 1..MaxMaxChars }
    /\ result = NoResult

SplitMessageReturns ==
    /\ args.function = "split_message"
    /\ ~result.returned
    /\ Returns(split_message(args.text, args.max_lines, args.max_chars_per_line))

SplitNext == SplitMessageReturns

SplitSpec == SplitInit /\ [][SplitNext]_vars

\* ----------------------------------------------------------- safe_sender_id
KeyAlphabet == {"1", "a", "Z", "@", ".", "_"}

KeyInit ==
    /\ Imported
    /\ args \in { [function |-> "safe_sender_id", sender_number |-> a] :
                    a \in Strings(KeyAlphabet, MaxAddressLen) }
    /\ result = NoResult

\* Line 277 evaluated once more for the same address; result.value holds the
\* keys derived so far.
SafeSenderIdReturns ==
    /\ args.function = "safe_sender_id"
    /\ Len(result.value) < MaxDerivations
    /\ Returns(Append(result.value, safe_sender_id(args.sender_number)))

KeyNext == SafeSenderIdReturns

KeySpec == KeyInit /\ [][KeyNext]_vars

\* ------------------------------------------------ load_conversation_history
\* Items a stored list may hold: the two kinds of turn, an object without
\* parts, an object without role, and a value that is no object.
StoredItems ==
    { UserTurn(Hi), ModelTurn(Hi), [role |-> "user"], [parts |-> <<Hi>>], NonDict }

StoredFiles ==
    {NoFile, Undecodable, JsonValue} \cup
    { JsonList(items) : items \in Strings(StoredItems, MaxItems) }

LoadInit ==
    /\ Imported
    /\ args \in { [function |-> "load_conversation_history", file |-> f,
                   read_ok |-> r] : f \in StoredFiles, r \in BOOLEAN }
    /\ result = NoResult

LoadConversationHistoryReturns ==
    /\ args.function = "load_conversation_history"
    /\ ~result.returned
    /\ Returns(load_conversation_history(args.file, args.read_ok))

LoadNext == LoadConversationHistoryReturns

LoadSpec == LoadInit /\ [][LoadNext]_vars
\* ================================================================== claims
\* What the claims read off a response and off a thread's calls.
Answered == response # NoResponse

IsLoad(c) == c.op = "load"
IsGenerate(c) == c.op = "generate"
IsSend(c) == c.op = "send"
IsSave(c) == c.op = "save"

Loads(cs) == SelectSeq(cs, IsLoad)
Generates(cs) == SelectSeq(cs, IsGenerate)
Sends(cs) == SelectSeq(cs, IsSend)
Saves(cs) == SelectSeq(cs, IsSave)

\* The chunks a sequence of send calls attempted, in order.
Attempted(cs) == [k \in 1..Len(Sends(cs)) |-> Sends(cs)[k].text]

AllSendsOk(cs) == \A k \in 1..Len(Sends(cs)) : Sends(cs)[k].ok
SomeSendFailed(cs) == \E k \in 1..Len(Sends(cs)) : ~Sends(cs)[k].ok

IsPrefix(s, t) == Len(s) <= Len(t) /\ SubSeq(t, 1, Len(s)) = s

\* A messages.upsert text event of the recognized shape: not self-sent, no
\* stub, a sender address and a non-empty text.
IsTextEvent(e) ==
    /\ e.body = "object" /\ e.event = "messages.upsert"
    /\ e.data = "object" /\ e.messages = "object" /\ e.key = "object"
    /\ ~e.fromMe /\ ~e.messageStubType
    /\ e.remoteJid \in Addresses
    /\ e.message \in {"conversation", "extendedTextMessage"}
    /\ e.text # <<>>

\* The history a handler that loaded `loaded` has to save for request e and
\* reply `reply`: two more turns, the user's raw text, then the full reply.
Recorded(loaded, e, reply) == loaded \o <<UserTurn(e.text), ModelTurn(reply)>>

\* The response's calls end with one save of the loaded history plus the two
\* turns of this exchange.
SavedExchange(r) ==
    /\ Len(Loads(r.calls)) = 1
    /\ Len(Saves(r.calls)) = 1
    /\ r.calls[Len(r.calls)].op = "save"
    /\ Saves(r.calls)[1].user_id = safe_sender_id(r.request.remoteJid)
    /\ Saves(r.calls)[1].history =
          Recorded(Loads(r.calls)[1].history, r.request, r.gemini_reply)

\* Every chunk of the reply was delivered.
Delivered(r) ==
    /\ r.gemini_reply # <<>>
    /\ AllSendsOk(r.calls)
    /\ Attempted(r.calls) =
          split_message(r.gemini_reply, DefaultMaxLines, DefaultMaxCharsPerLine)

\* C1 (as claimed): every exchange for a text event whose reply was generated
\* and delivered ends with the handler saving the history it loaded followed
\* by exactly two turns, the user's raw text and then the reply.
C1_DeliveredExchangeIsSaved ==
    (Answered /\ IsTextEvent(response.request) /\ Delivered(response))
        => SavedExchange(response)

\* C2 (as claimed): the chunks a handler attempted are always a prefix of the
\* segmenter's output for the reply, and when no send failed the handler
\* ends having attempted all of them, each once and in order.
C2_AllChunksAttemptedInOrder ==
    /\ \A h \in Handlers : IsPrefix(Attempted(calls[h]), message_chunks[h])
    /\ Answered =>
          /\ IsPrefix(Attempted(response.calls), response.message_chunks)
          /\ AllSendsOk(response.calls) =>
                Attempted(response.calls) = response.message_chunks

\* C3 (as claimed): a text event with a sender address is answered 200
\* "success" whatever generation, delivery and persistence did, and 400 is
\* answered only when the sender address is missing.
C3_TextEventAnswered200 ==
    Answered =>
        /\ IsTextEvent(response.request) =>
              response.reply.code = 200 /\ response.reply.status = "success"
        /\ response.reply.code = 400 => SenderMissing(response.request)

\* Only the last send call of a sequence of calls may have failed.
NoSendAfterFailure(cs) ==
    \A k \in 1..Len(Sends(cs)) : ~Sends(cs)[k].ok => k = Len(Sends(cs))

\* C4: within one exchange no send call follows a send call that failed,
\* and a handler whose send failed is out of the sending loop.
C4_NoSendAfterFailure ==
    /\ \A h \in Handlers :
          /\ NoSendAfterFailure(calls[h])
          /\ SomeSendFailed(calls[h]) => pc[h] \in {"save", "write"}
    /\ Answered => NoSendAfterFailure(response.calls)

\* A failed send with chunks left over, and the handler went on to the end.
C4_Witness ==
    /\ Answered
    /\ Len(response.message_chunks) = 3
    /\ Len(Sends(response.calls)) = 1
    /\ SomeSendFailed(response.calls)
    /\ response.reply = Success

C6_SelfSentIgnored ==
    /\ \A h \in Handlers : ~request[h].fromMe
    /\ (Answered /\ response.request.fromMe) =>
          response.calls = <<>> /\ response.reply.code = 200

\* A self-sent text message with a sender was answered.
C6_Witness ==
    /\ Answered
    /\ response.request.fromMe
    /\ response.request.event = "messages.upsert"
    /\ response.request.remoteJid \in Addresses
    /\ response.request.text # <<>>
    /\ response.reply = SelfSentIgnored

\* The handler's load call.
LoadOk(h) == Len(Loads(calls[h])) = 1 /\ Loads(calls[h])[1].ok

\* C7 (as claimed): concurrent exchanges of one user do not overwrite each
\* other: when a handler that read the user's file replaces it, what it is
\* about to write extends what the file holds, so that no turn pair another
\* exchange persisted in the meantime is dropped.
C7_NoLostUpdate ==
    [][\A h \in Handlers :
          (pc[h] = "save" /\ pc'[h] = "write" /\ LoadOk(h)) =>
              IsPrefix(load_conversation_history(
                           files[safe_sender_id(request[h].remoteJid)], TRUE),
                       conversation_history[h])]_vars

\* Threads that are handling a request.
InFlight == {h \in Handlers : pc[h] # "idle"}

\* C8: every request gets exactly one response, with code 200, 400 or 500:
\* requests are neither lost nor answered twice, and again and again every
\* request received so far has been answered, whatever the event and
\* whatever fails.
C8_EveryEventAnsweredOnce ==
    /\ [](Answered => response.reply.code \in {200, 400, 500})
    /\ [](received = responded + Cardinality(InFlight)
                       + (IF Answered THEN 1 ELSE 0))
    /\ []<>(responded = received)

\* The exception raised after a delivered chunk was answered, after an
\* earlier request had been answered too.
C8_Witness ==
    /\ Answered
    /\ response.reply = InternalServerError
    /\ Len(Sends(response.calls)) = 1
    /\ AllSendsOk(response.calls)
    /\ responded >= 1

HasMessageInfo(e) ==
    /\ e.event = "messages.upsert"
    /\ e.data = "object" /\ e.messages = "object"
    /\ e.key # "non-object" /\ e.message # "non-object"

C10_ApologyPathCompletes ==
    (Answered /\ ~GEMINI_API_KEY /\ IsTextEvent(response.request)) =>
        /\ response.gemini_reply = API_KEY_APOLOGY
        /\ ~Generates(response.calls)[1].ok
        /\ AllSendsOk(response.calls) =>
              Delivered(response) /\ SavedExchange(response)


\* The user whose file handler h works on.
UserOf(h) == safe_sender_id(request[h].remoteJid)

\* C11 (as claimed): a load never observes a partially written record: when
\* a handler reads a user's file, the file is absent or holds a complete
\* list, whatever saves are in progress or have failed.
C11_LoadSeesCompleteRecord ==
    [][\A h \in Handlers :
          (pc[h] = "load" /\ pc'[h] = "generate") =>
              files[UserOf(h)].state # "undecodable"]_vars

\* ------------------------------------------------- claims about split_message
\* The lines of a chunk, and of all chunks rejoined on line breaks.
Lines(chunk) == SplitOn(chunk, "\n")
Rejoined(chunks) == Join(chunks, "\n")
Elements(s) == {s[k] : k \in 1..Len(s)}

\* The call of split_message has returned.
SplitReturned == args.function = "split_message" /\ result.returned

\* C12: for max_lines >= 1, every chunk split_message returns has at most
\* max_lines lines.
C12_ChunkLineBound ==
    (SplitReturned /\ args.max_lines >= 1) =>
        \A k \in 1..Len(result.value) :
            Len(Lines(result.value[k])) <= args.max_lines

\* Three lines or more were split into chunks of at most two lines, one of
\* them full.
C12_Witness ==
    /\ SplitReturned
    /\ args.max_lines = 2
    /\ Len(SplitOn(args.text, "\n")) >= 3
    /\ Len(result.value) >= 2
    /\ \E k \in 1..Len(result.value) : Len(Lines(result.value[k])) = 2

\* The line is one word and nothing else.
IsSingleWord(line) == SplitWords(line) = <<line>>

\* C13: every line of every chunk has at most max_chars_per_line characters
\* unless it is a single word longer than that, and every word of the text
\* is found whole in some line.
C13_LineCharBound ==
    SplitReturned =>
        /\ \A k \in 1..Len(result.value) :
              \A line \in Elements(Lines(result.value[k])) :
                  \/ Len(line) <= args.max_chars_per_line
                  \/ IsSingleWord(line) /\ Len(line) > args.max_chars_per_line
        /\ \A word \in Elements(SplitWords(args.text)) :
              \E k \in 1..Len(result.value) :
                  \E line \in Elements(Lines(result.value[k])) :
                      word \in Elements(SplitWords(line))

\* A paragraph longer than the limit was packed into lines, one of them of
\* two words and exactly the limit.
C13_Witness ==
    /\ SplitReturned
    /\ \E p \in Elements(SplitOn(args.text, "\n")) : Len(p) > args.max_chars_per_line
    /\ \E k \in 1..Len(result.value) :
          \E line \in Elements(Lines(result.value[k])) :
              Len(line) = args.max_chars_per_line /\ Len(SplitWords(line)) = 2

\* No paragraph of the text is longer than max_chars_per_line.
NoLongParagraph ==
    \A p \in Elements(SplitOn(args.text, "\n")) : Len(p) <= args.max_chars_per_line

\* The rejoined chunks have the words of the text, and its lines when no
\* paragraph is longer than the limit.
RoundTrip ==
    /\ SplitWords(Rejoined(result.value)) = SplitWords(args.text)
    /\ NoLongParagraph =>
          SplitOn(Rejoined(result.value), "\n") = SplitOn(args.text, "\n")

C18_GreedyPacking ==
    (/\ SplitReturned
     /\ args.max_lines >= 1
     /\ "\n" \notin Elements(args.text)
     /\ Len(args.text) > args.max_chars_per_line) =>
        \A k \in 1..(Len(Lines(Rejoined(result.value))) - 1) :
            LET closed == Lines(Rejoined(result.value))[k]
                next == Lines(Rejoined(result.value))[k + 1]
            IN  next # <<>> =>
                    Len(closed) + 1 + Len(SplitWords(next)[1]) > args.max_chars_per_line

CompleteItems == {item \in StoredItems : item \in {UserTurn(Hi), ModelTurn(Hi)}}

\* C16: load_conversation_history always returns: the stored list itself
\* when the record is read and every item has role and parts, the empty
\* list when there is no record, when it cannot be decoded and when one
\* item lacks role or parts.
C16_LoadNeverRaises ==
    args.function = "load_conversation_history" =>
        /\ ~result.returned => ENABLED LoadConversationHistoryReturns
        /\ result.returned =>
              /\ (/\ args.file.state = "list"
                  /\ args.read_ok
                  /\ Elements(args.file.items) \subseteq CompleteItems)
                    => result.value = args.file.items
              /\ args.file.state \in {"no file", "undecodable"} => result.value = <<>>
              /\ (/\ args.file.state = "list"
                  /\ Elements(args.file.items) \ CompleteItems # {})
                    => result.value = <<>>

\* A list of three items, the second without parts, was loaded as empty.
C16_Witness ==
    /\ args.function = "load_conversation_history"
    /\ result.returned
    /\ args.read_ok
    /\ args.file = JsonList(<<UserTurn(Hi), [role |-> "user"], ModelTurn(Hi)>>)
    /\ result.value = <<>>

\* ----------------------------------------------- claims about ignored events
\* The event is not a messages.upsert notification (the body is JSON).
IsOtherEvent(e) ==
    e.body \in {"object", "non-object"} /\ e.event # "messages.upsert"

\* A messages.upsert notification carrying a stub type.
IsStubNotification(e) == e.event = "messages.upsert" /\ e.messageStubType

\* A messages.upsert message with a sender address whose message member
\* holds neither conversation nor extendedTextMessage.text.
IsUnknownShape(e) ==
    /\ e.event = "messages.upsert"
    /\ e.remoteJid \in Addresses
    /\ e.message \in {"extendedTextMessage-no-text", "other", Absent}

\* Acknowledged with 200 and nothing was loaded, generated, sent or saved.
Acknowledged200NoEffect(r) == r.reply.code = 200 /\ r.calls = <<>>

MembersAreObjects(e) ==
    /\ e.body = "object"
    /\ e.event = "messages.upsert" =>
          /\ e.data # "non-object" /\ e.messages # "non-object"
          /\ e.key # "non-object" /\ e.message # "non-object"

Alternates(history) ==
    /\ Len(history) % 2 = 0
    /\ \A k \in 1..Len(history) :
          /\ DOMAIN history[k] = {"role", "parts"}
          /\ history[k].role = (IF k % 2 = 1 THEN "user" ELSE "model")
          /\ Len(history[k].parts) = 1

\* C19: every history that is in a file, and every history a save call was
\* given, has an even number of turns that alternate user, model, starting
\* with user, each turn with exactly one segment.
C19_StoredHistoriesAlternate ==
    /\ \A u \in UserIds : files[u].state = "list" => Alternates(files[u].items)
    /\ \A h \in Handlers : pc[h] \in {"save", "write"} =>
          Alternates(conversation_history[h])
    /\ Answered =>
          \A k \in 1..Len(Saves(response.calls)) :
              Alternates(Saves(response.calls)[k].history)

\* A user's file holds the turns of two exchanges.
C19_Witness ==
    \E u \in UserIds : files[u].state = "list" /\ Len(files[u].items) = 4

\* C20 (as claimed): two handlers that have loaded the histories of two
\* different sender addresses work on two different records.
C20_HistoriesPartitioned ==
    \A h1, h2 \in Handlers :
        (/\ pc[h1] \in {"generate", "send", "save", "write"}
         /\ pc[h2] \in {"generate", "send", "save", "write"}
         /\ request[h1].remoteJid # request[h2].remoteJid)
            => Loads(calls[h1])[1].user_id # Loads(calls[h2])[1].user_id
====
